---- MODULE Spec2Model ----
(***************************************************************************)
(* nextjs-brand: createBrandConfig (src/src/index.ts) as a state machine.  *)
(*                                                                         *)
(* JavaScript values are records tagged by "kind".  A JavaScript string is *)
(* a sequence of tokens, each token an atomic run of characters: the code  *)
(* splits keys on "." and cookie text on "; " and "=", so those characters *)
(* are tokens of their own and split/startsWith/join are computed on the   *)
(* token sequence.                                                         *)
(***************************************************************************)
EXTENDS Integers, Sequences, FiniteSets, TLC

VARIABLES pc, options, env, args, CONFIG, closure, document, ret, lastSet

vars == <<pc, options, env, args, CONFIG, closure, document, ret, lastSet>>

(***************************************************************************)
(* Bounds of the model.                                                    *)
(***************************************************************************)
\* longest languages / marketingLanguages / currencies sequence a caller supplies
MaxSeqLen == 2
\* longest translation key, in tokens ("a.0" has three)
MaxKeyLen == 3
\* longest locale handed to setLocaleCookie, in tokens
MaxLocaleLen == 2

(***************************************************************************)
(* JavaScript values.                                                      *)
(***************************************************************************)
Undefined == [kind |-> "undefined"]

Null == [kind |-> "null"]

Str(s) == [kind |-> "string", s |-> s]

\* a one-token string
S(tok) == Str(<<tok>>)

Arr(items) == [kind |-> "array", items |-> items]

\* an object whose property names are computed at run time
Obj(props) == [kind |-> "object", props |-> props]

EmptyObj == Obj(<<>>)

\* the outcome of a call that raised a TypeError
Threw == [kind |-> "threw"]

\* ToBoolean of the kinds the model has
Truthy(v) ==
    CASE v.kind = "undefined" -> FALSE
      [] v.kind = "null" -> FALSE
      [] v.kind = "string" -> v.s # <<>>
      [] OTHER -> TRUE

\* a || b
Or(a, b) == IF Truthy(a) THEN a ELSE b

Nullish(v) == v.kind \in {"undefined", "null"}

\* a destructuring default: `x = dflt` applies to undefined only
Default(v, dflt) == IF v.kind = "undefined" THEN dflt ELSE v

Range(s) == {s[i] : i \in 1..Len(s)}

SeqsUpTo(A, n) == UNION {[1..k -> A] : k \in 0..n}

(***************************************************************************)
(* Built-in defaults.  Flags are written by their region letters.          *)
(***************************************************************************)
DEFAULT_BRAND ==
    [name |-> S("MyApp"), tagline |-> S("Your Application"), logoUrl |-> Null,
     primaryColor |-> S("#4f46e5"), secondaryColor |-> S("#10b981"),
     tertiaryColor |-> S("#f59e0b")]

Currency(c, f, n, s) ==
    [kind |-> "object", code |-> S(c), flag |-> S(f), name |-> S(n), symbol |-> S(s)]

Language(c, f, n) ==
    [kind |-> "object", code |-> S(c), flag |-> S(f), name |-> S(n)]

DEFAULT_CURRENCIES ==
    Arr(<< Currency("USD", "US", "US Dollar", "$"),
           Currency("EUR", "EU", "Euro", "EUR-sign"),
           Currency("GBP", "GB", "British Pound", "GBP-sign"),
           Currency("JPY", "JP", "Japanese Yen", "JPY-sign"),
           Currency("INR", "IN", "Indian Rupee", "INR-sign"),
           Currency("SGD", "SG", "Singapore Dollar", "$"),
           Currency("AUD", "AU", "Australian Dollar", "$"),
           Currency("CAD", "CA", "Canadian Dollar", "$"),
           Currency("SEK", "SE", "Swedish Krona", "kr") >>)

DEFAULT_LANGUAGES ==
    Arr(<< Language("en-US", "US", "English (US)"),
           Language("es-ES", "ES", "Spanish"),
           Language("fr-FR", "FR", "French") >>)

EN_US == S("en-US")

(***************************************************************************)
(* createBrandConfig.                                                      *)
(***************************************************************************)
BrandFields ==
    {"name", "tagline", "logoUrl", "primaryColor", "secondaryColor", "tertiaryColor"}

RegionalFields == {"defaultCurrency", "defaultLocale"}

\* the environment variable read for each field
EnvVar ==
    [name |-> "NEXT_PUBLIC_APP_NAME", tagline |-> "NEXT_PUBLIC_APP_TAGLINE",
     logoUrl |-> "NEXT_PUBLIC_APP_LOGO_URL",
     primaryColor |-> "NEXT_PUBLIC_PRIMARY_COLOR",
     secondaryColor |-> "NEXT_PUBLIC_SECONDARY_COLOR",
     tertiaryColor |-> "NEXT_PUBLIC_TERTIARY_COLOR",
     defaultCurrency |-> "NEXT_PUBLIC_DEFAULT_CURRENCY",
     defaultLocale |-> "NEXT_PUBLIC_DEFAULT_LOCALE"]

EnvVars == {EnvVar[f] : f \in BrandFields \cup RegionalFields}

\* const { brand = {}, regional = {}, currencies = DEFAULT_CURRENCIES, ... } = options
\* (the parameter default `options = {}` applies to undefined only)
EmptyOptions ==
    [kind |-> "object", brand |-> Undefined, regional |-> Undefined,
     currencies |-> Undefined, languages |-> Undefined,
     marketingLanguages |-> Undefined, pricingMap |-> Undefined,
     translations |-> Undefined, customConfig |-> Undefined]

EmptyBrand == [kind |-> "object"] @@ [f \in BrandFields |-> Undefined]

EmptyRegional == [kind |-> "object"] @@ [f \in RegionalFields |-> Undefined]

\* a resolution that lets the environment win over the explicit value
ResolveField_EnvFirst(explicit, envValue, builtin) == Or(Or(envValue, explicit), builtin)

\* brand.f || process.env.X || DEFAULT
ResolveField(explicit, envValue, builtin) == Or(Or(explicit, envValue), builtin)

\* a logo resolved by truthiness like the other fields
ResolveLogo_Truthiness(explicit, envValue, builtin) == Or(Or(explicit, envValue), builtin)

\* brand.logoUrl !== undefined ? brand.logoUrl : (process.env.X || DEFAULT)
ResolveLogo(explicit, envValue, builtin) ==
    IF explicit.kind # "undefined" THEN explicit ELSE Or(envValue, builtin)

brandConfig(brand, e) ==
    [kind |-> "object",
     name |-> ResolveField(brand.name, e[EnvVar.name], DEFAULT_BRAND.name),
     tagline |-> ResolveField(brand.tagline, e[EnvVar.tagline], DEFAULT_BRAND.tagline),
     logoUrl |-> ResolveLogo(brand.logoUrl, e[EnvVar.logoUrl], DEFAULT_BRAND.logoUrl),
     primaryColor |-> ResolveField(brand.primaryColor, e[EnvVar.primaryColor],
                                   DEFAULT_BRAND.primaryColor),
     secondaryColor |-> ResolveField(brand.secondaryColor, e[EnvVar.secondaryColor],
                                     DEFAULT_BRAND.secondaryColor),
     tertiaryColor |-> ResolveField(brand.tertiaryColor, e[EnvVar.tertiaryColor],
                                    DEFAULT_BRAND.tertiaryColor)]

regionalConfig(regional, e) ==
    [kind |-> "object",
     defaultCurrency |-> ResolveField(regional.defaultCurrency,
                                      e[EnvVar.defaultCurrency], S("USD")),
     defaultLocale |-> ResolveField(regional.defaultLocale,
                                    e[EnvVar.defaultLocale], EN_US)]

\* languages.map(l => l.code): a TypeError on a null sequence or a null entry
MapThrows(seq) ==
    \/ seq.kind # "array"
    \/ \E i \in 1..Len(seq.items) : Nullish(seq.items[i])

Codes(seq) == [i \in 1..Len(seq.items) |-> seq.items[i].code]

\* a list of locales that keeps the repeats
Dedupe_Keep(xs) == xs

\* Array.from(new Set(xs)): the first occurrence of each value, in insertion order
RECURSIVE Dedupe(_)
Dedupe(xs) ==
    IF xs = <<>> THEN <<>>
    ELSE LET front == Dedupe(SubSeq(xs, 1, Len(xs) - 1))
             last == xs[Len(xs)]
         IN  IF last \in Range(front) THEN front ELSE Append(front, last)

supportedLocales(languages, marketingLanguages) ==
    Arr(Dedupe(Codes(languages) \o Codes(marketingLanguages)))

\* a sequence field that adds what the caller supplies to the built-in sequence
SequenceField_Merged(given, dflt) ==
    IF given.kind = "array" THEN Arr(dflt.items \o given.items) ELSE Default(given, dflt)

\* currencies = DEFAULT_CURRENCIES, languages = DEFAULT_LANGUAGES, ... in the
\* destructuring: the caller's value unless it is undefined
SequenceField(given, dflt) == Default(given, dflt)

\* { ...base, ...customConfig }: null and undefined spread to nothing
Spread(base, customConfig) ==
    IF customConfig.kind # "object" THEN base
    ELSE [k \in DOMAIN base \cup DOMAIN customConfig.props |->
            IF k \in DOMAIN customConfig.props THEN customConfig.props[k] ELSE base[k]]

\* The module createBrandConfig returns: CONFIG and what the helpers close over
\* (translations, regionalConfig); Threw when the construction raises.
createBrandConfig(opts, e) ==
    IF opts.kind = "null" THEN Threw
    ELSE LET o == Default(opts, EmptyOptions)
             brand == Default(o.brand, EmptyBrand)
             regional == Default(o.regional, EmptyRegional)
             currencies == SequenceField(o.currencies, DEFAULT_CURRENCIES)
             languages == SequenceField(o.languages, DEFAULT_LANGUAGES)
             marketingLanguages == SequenceField(o.marketingLanguages, DEFAULT_LANGUAGES)
             pricingMap == Default(o.pricingMap, EmptyObj)
             translations == Default(o.translations, EmptyObj)
             customConfig == Default(o.customConfig, EmptyObj)
         IN  IF \/ brand.kind = "null"
                \/ regional.kind = "null"
                \/ MapThrows(languages)
                \/ MapThrows(marketingLanguages)
             THEN Threw
             ELSE [kind |-> "module",
                   CONFIG |-> Spread(
                       [brand |-> brandConfig(brand, e),
                        regional |-> regionalConfig(regional, e),
                        currencies |-> currencies,
                        languages |-> languages,
                        marketingLanguages |-> marketingLanguages,
                        PRICING_MAP |-> pricingMap,
                        i18n |-> [kind |-> "object", enabled |-> TRUE,
                                  supportedLocales |->
                                      supportedLocales(languages, marketingLanguages)]],
                       customConfig),
                   translations |-> translations,
                   regionalConfig |-> regionalConfig(regional, e)]

(***************************************************************************)
(* String operations, on token sequences.                                  *)
(***************************************************************************)
StartsWith(s, p) == Len(s) >= Len(p) /\ SubSeq(s, 1, Len(p)) = p

\* the first position of sep in s, 0 when there is none
IndexOf(s, sep) ==
    LET hits == {i \in 1..(Len(s) - Len(sep) + 1) : SubSeq(s, i, i + Len(sep) - 1) = sep}
    IN  IF hits = {} THEN 0 ELSE CHOOSE i \in hits : \A j \in hits : i <= j

\* String.prototype.split with a non-empty separator: "".split(sep) is [""]
RECURSIVE Split(_, _)
Split(s, sep) ==
    LET i == IndexOf(s, sep)
    IN  IF i = 0 THEN <<s>>
        ELSE <<SubSeq(s, 1, i - 1)>> \o Split(SubSeq(s, i + Len(sep), Len(s)), sep)

\* leading and trailing spaces removed
RECURSIVE Trim(_)
Trim(s) ==
    IF s # <<>> /\ Head(s) = " " THEN Trim(Tail(s))
    ELSE IF s # <<>> /\ s[Len(s)] = " " THEN Trim(SubSeq(s, 1, Len(s) - 1))
    ELSE s

(***************************************************************************)
(* t: the translation helper.                                              *)
(***************************************************************************)
\* the digit tokens and the array index each spells
Digit == [z \in {"0"} |-> 0]

\* value[part].  An object yields its own property (the property names of the
\* model are none of Object.prototype's).  A string yields the character at a
\* canonical index and its length; the strings that are indexed are made of
\* one-character tokens.
Index(value, part) ==
    CASE value.kind = "object" ->
            IF part \in DOMAIN value.props THEN value.props[part] ELSE Undefined
      [] value.kind = "string" ->
            IF Len(part) = 1 /\ part[1] \in DOMAIN Digit /\ Digit[part[1]] < Len(value.s)
            THEN S(value.s[Digit[part[1]] + 1])
            ELSE IF part = <<"length">>
            THEN [kind |-> "number", n |-> Len(value.s)]
            ELSE Undefined
      [] OTHER -> Undefined

\* for (const part of keys) { if (value == null) return undefined; value = value[part] }
RECURSIVE Traverse(_, _)
Traverse(value, keys) ==
    IF keys = <<>> THEN value
    ELSE IF Nullish(value) THEN Undefined
    ELSE Traverse(Index(value, Head(keys)), Tail(keys))

getValue(d, k) == Traverse(d, Split(k, <<".">>))

\* a lookup that never consults the "en-US" dictionary of a locale that has its own
t_NoFallback(translations, defaultLocale, key, localeArg) ==
    IF translations.kind = "null" THEN Threw
    ELSE LET locale == Default(localeArg, defaultLocale)
             dict == Or(Or(Index(translations, locale.s), Index(translations, EN_US.s)),
                        EmptyObj)
             value == getValue(dict, key)
         IN  IF ~Nullish(value) THEN value ELSE Str(key)

\* t(key, locale = regionalConfig.defaultLocale) over the closed-over translations
t(translations, defaultLocale, key, localeArg) ==
    IF translations.kind = "null" THEN Threw
    ELSE LET locale == Default(localeArg, defaultLocale)
             dict == Or(Or(Index(translations, locale.s), Index(translations, EN_US.s)),
                        EmptyObj)
             enDict == Or(Index(translations, EN_US.s), EmptyObj)
             value == getValue(dict, key)
             enValue == getValue(enDict, key)
         IN  IF ~Nullish(value) THEN value
             ELSE IF locale # EN_US /\ ~Nullish(enValue) THEN enValue
             ELSE Str(key)

(***************************************************************************)
(* The ambient cookie store behind document.cookie.  A cookie is           *)
(* [name, value, path]; the jar keeps them in creation order.  Every       *)
(* cookie of the model is in scope of the page.                            *)
(***************************************************************************)
Cookie(n, v, p) == [name |-> n, value |-> v, path |-> p]

NEXT_LOCALE == <<"NEXT_LOCALE">>

RootPath == <<"/">>

\* the default-path of the page, used when a cookie names no path
PagePath == <<"/", "app">>

\* the cookies in the order the getter lists them: longer paths first, then
\* by creation
RECURSIVE ByPath(_)
ByPath(jar) ==
    IF jar = <<>> THEN <<>>
    ELSE LET rest == ByPath(SubSeq(jar, 1, Len(jar) - 1))
             c == jar[Len(jar)]
             before == SelectSeq(rest, LAMBDA x : Len(x.path) >= Len(c.path))
             after == SelectSeq(rest, LAMBDA x : Len(x.path) < Len(c.path))
         IN  before \o <<c>> \o after

RECURSIVE Join(_, _)
Join(rows, sep) ==
    IF rows = <<>> THEN <<>>
    ELSE IF Len(rows) = 1 THEN rows[1]
    ELSE rows[1] \o sep \o Join(Tail(rows), sep)

\* reading document.cookie: "name=value; name=value"
CookieGetter(jar) ==
    LET sorted == ByPath(jar)
    IN  Join([i \in 1..Len(sorted) |-> sorted[i].name \o <<"=">> \o sorted[i].value],
             <<";", " ">>)

\* the Path attribute in force: the last one that starts with "/"
RECURSIVE PathAttribute(_, _)
PathAttribute(attrs, dflt) ==
    IF attrs = <<>> THEN dflt
    ELSE LET a == Trim(attrs[Len(attrs)])
             eq == IndexOf(a, <<"=">>)
             attrName == IF eq = 0 THEN a ELSE Trim(SubSeq(a, 1, eq - 1))
             attrValue == IF eq = 0 THEN <<>> ELSE Trim(SubSeq(a, eq + 1, Len(a)))
         IN  IF attrName = <<"path">> /\ attrValue # <<>> /\ Head(attrValue) = "/"
             THEN attrValue
             ELSE PathAttribute(SubSeq(attrs, 1, Len(attrs) - 1), dflt)

\* assigning document.cookie = text: the name and value are cut at the first
\* ";" and at the first "=", and trimmed; a cookie of the same name and path is
\* replaced in place, a new one is appended.  The max-age the code writes is
\* positive, so the cookie is kept.
CookieSetter(jar, text) ==
    LET semi == IndexOf(text, <<";">>)
        pair == IF semi = 0 THEN text ELSE SubSeq(text, 1, semi - 1)
        attrs == IF semi = 0 THEN <<>> ELSE Split(SubSeq(text, semi + 1, Len(text)), <<";">>)
        eq == IndexOf(pair, <<"=">>)
        n == IF eq = 0 THEN <<>> ELSE Trim(SubSeq(pair, 1, eq - 1))
        v == IF eq = 0 THEN Trim(pair) ELSE Trim(SubSeq(pair, eq + 1, Len(pair)))
        c == Cookie(n, v, PathAttribute(attrs, PagePath))
        same == {i \in 1..Len(jar) : jar[i].name = c.name /\ jar[i].path = c.path}
    IN  IF same = {} THEN Append(jar, c)
        ELSE [i \in 1..Len(jar) |-> IF i \in same THEN c ELSE jar[i]]

\* `NEXT_LOCALE=${locale}; path=/; max-age=31536000; SameSite=Lax`
CookieText(locale) ==
    NEXT_LOCALE \o <<"=">> \o locale
        \o <<";", " ", "path", "=", "/", ";", " ", "max-age", "=", "31536000",
             ";", " ", "SameSite", "=", "Lax">>

\* a writer that does not look for the document first
setLocaleCookie_NoGuard(doc, locale) ==
    [kind |-> "document",
     jar |-> CookieSetter(IF doc.kind = "undefined" THEN <<>> ELSE doc.jar,
                          CookieText(locale))]

\* setLocaleCookie: the document after the call
setLocaleCookie(doc, locale) ==
    IF doc.kind = "undefined" THEN doc
    ELSE [doc EXCEPT !.jar = CookieSetter(doc.jar, CookieText(locale))]

\* cookies.find(row => row.startsWith('NEXT_LOCALE='))
RECURSIVE Find(_, _)
Find(rows, prefix) ==
    IF rows = <<>> THEN Undefined
    ELSE IF StartsWith(Head(rows), prefix) THEN Str(Head(rows))
    ELSE Find(Tail(rows), prefix)

\* a reader that takes the wrong half of the row
getLocaleCookie_Name(doc) ==
    IF doc.kind = "undefined" THEN Null
    ELSE LET cookies == Split(CookieGetter(doc.jar), <<";", " ">>)
             localeCookie == Find(cookies, NEXT_LOCALE \o <<"=">>)
         IN  IF Truthy(localeCookie) THEN Str(Split(localeCookie.s, <<"=">>)[1])
             ELSE Null

\* getLocaleCookie: what the call returns
getLocaleCookie(doc) ==
    IF doc.kind = "undefined" THEN Null
    ELSE LET cookies == Split(CookieGetter(doc.jar), <<";", " ">>)
             localeCookie == Find(cookies, NEXT_LOCALE \o <<"=">>)
         IN  IF Truthy(localeCookie) THEN Str(Split(localeCookie.s, <<"=">>)[2])
             ELSE Null

(***************************************************************************)
(* The inputs: options structures, environments, documents, helper         *)
(* arguments.                                                              *)
(***************************************************************************)
AllFields == BrandFields \cup RegionalFields

OptVal(f) == Str(<<"opt", f>>)

EnvVal(f) == Str(<<"env", f>>)

EmptyString == Str(<<>>)

\* what a caller can write for a field: omitted, empty, a value; null for the logo
ExplicitValues(f) ==
    {Undefined, EmptyString, OptVal(f)} \cup (IF f = "logoUrl" THEN {Null} ELSE {})

\* what process.env can hold for a variable: unset, empty, a value
EnvValues(f) == {Undefined, EmptyString, EnvVal(f)}

EmptyEnv == [v \in EnvVars |-> Undefined]

\* how the fields other than the one under study are filled
Backgrounds == {"none", "env", "both"}

BgExplicit(bg, f) == IF bg = "both" THEN OptVal(f) ELSE Undefined

BgEnv(bg, f) == IF bg = "none" THEN Undefined ELSE EnvVal(f)

WithFields(o, x, f, bg) ==
    [o EXCEPT
       !.brand = [kind |-> "object"] @@
                 [g \in BrandFields |-> IF g = f THEN x ELSE BgExplicit(bg, g)],
       !.regional = [kind |-> "object"] @@
                    [g \in RegionalFields |-> IF g = f THEN x ELSE BgExplicit(bg, g)]]

EnvWith(y, f, bg) ==
    [v \in EnvVars |->
        LET g == CHOOSE h \in AllFields : EnvVar[h] = v
        IN  IF g = f THEN y ELSE BgEnv(bg, g)]

\* every variable set
FullEnv == [v \in EnvVars |-> EnvVal(CHOOSE h \in AllFields : EnvVar[h] = v)]

NoDocument == Undefined

Doc(jar) == [kind |-> "document", jar |-> jar]

Scenario(o, e, d) == [options |-> o, env |-> e, document |-> d]

\* every combination of the three sources of one field, over each background
FieldScenarios ==
    UNION {{Scenario(WithFields(EmptyOptions, x, fb[1], fb[2]), EnvWith(y, fb[1], fb[2]),
                     NoDocument) :
                x \in ExplicitValues(fb[1]), y \in EnvValues(fb[1])} :
           fb \in AllFields \X Backgrounds}

\* the languages and currencies callers supply
Languages ==
    {Language("en-US", "US", "English (US)"), Language("es-ES", "ES", "Spanish"),
     Language("de-DE", "DE", "German")}

Currencies == {Currency("USD", "US", "US Dollar", "$"), Currency("CHF", "CH", "Swiss Franc", "Fr")}

\* a sequence field: omitted, or a sequence (repeats allowed) up to MaxSeqLen
SeqValues(items) == {Undefined} \cup {Arr(q) : q \in SeqsUpTo(items, MaxSeqLen)}

SequenceScenarios ==
    {Scenario([EmptyOptions EXCEPT !.languages = l, !.marketingLanguages = m],
              EmptyEnv, NoDocument) :
        l \in SeqValues(Languages), m \in SeqValues(Languages)}
    \cup
    {Scenario([EmptyOptions EXCEPT !.currencies = c, !.languages = l], EmptyEnv, NoDocument) :
        c \in SeqValues(Currencies), l \in {Undefined, Arr(<<>>)}}

\* customConfig: extra sections, and sections named like the built-in ones
CustomConfigs ==
    {Obj([contractTypes |-> Arr(<<S("msa"), S("nda")>>)]),
     Obj([brand |-> [kind |-> "object", name |-> S("Shadow")]]),
     Obj([regional |-> Null, i18n |-> [kind |-> "object", enabled |-> FALSE]]),
     Obj([currencies |-> Arr(<<>>), languages |-> Arr(<<>>),
          marketingLanguages |-> Arr(<<>>)])}

FullOptions ==
    [WithFields(EmptyOptions, OptVal("name"), "name", "both") EXCEPT
        !.currencies = Arr(<<Currency("CHF", "CH", "Swiss Franc", "Fr")>>),
        !.languages = Arr(<<Language("de-DE", "DE", "German")>>),
        !.marketingLanguages = Arr(<<Language("es-ES", "ES", "Spanish"),
                                     Language("de-DE", "DE", "German")>>),
        !.pricingMap = Obj([USD |-> [kind |-> "object", price |-> S("9"), symbol |-> S("$")]])]

CustomScenarios ==
    {Scenario([o EXCEPT !.customConfig = c], e, NoDocument) :
        o \in {EmptyOptions, FullOptions}, c \in CustomConfigs,
        e \in {EmptyEnv, FullEnv}}

\* options structures with a part absent, null or ill-formed
MalformedOptions ==
    {Undefined, Null, EmptyOptions, FullOptions,
     [EmptyOptions EXCEPT !.brand = Null],
     [EmptyOptions EXCEPT !.brand = EmptyBrand],
     [EmptyOptions EXCEPT !.regional = Null],
     [EmptyOptions EXCEPT !.regional = EmptyRegional],
     [EmptyOptions EXCEPT !.currencies = Null],
     [EmptyOptions EXCEPT !.languages = Null],
     [EmptyOptions EXCEPT !.marketingLanguages = Null],
     [EmptyOptions EXCEPT !.languages = Arr(<<Null>>)],
     [EmptyOptions EXCEPT !.marketingLanguages =
         Arr(<<[kind |-> "object", code |-> Undefined]>>)],
     [EmptyOptions EXCEPT !.pricingMap = Null],
     [EmptyOptions EXCEPT !.translations = Null],
     [EmptyOptions EXCEPT !.customConfig = Null]}

MalformedScenarios ==
    {Scenario(o, e, d) : o \in MalformedOptions,
        e \in {EmptyEnv, FullEnv},
        d \in {NoDocument, Doc(<<>>)}}

\* translation dictionaries: under "a", nothing, null, a leaf string, or a
\* nested dictionary; the leaf tells the dictionaries apart
A == <<"a">>

Zero == <<"0">>

Dicts(leaf) ==
    {EmptyObj, Obj(A :> Null), Obj(A :> Str(leaf)), Obj(A :> Obj(A :> Str(leaf))),
     Obj(A :> Obj(Zero :> Str(leaf))), Obj(A :> Obj(A :> Null))}

FR_FR == S("fr-FR")

\* translations: each of "en-US" and "fr-FR" absent or a dictionary, "fr-FR" also null
Translations ==
    {Obj([l \in {EN_US.s : x \in {en} \ {Undefined}} \cup {FR_FR.s : x \in {fr} \ {Undefined}}
            |-> IF l = EN_US.s THEN en ELSE fr]) :
        en \in {Undefined} \cup Dicts(<<"e", "n">>),
        fr \in {Undefined, Null} \cup Dicts(<<"f", "r">>)}

TranslationScenarios ==
    {Scenario([EmptyOptions EXCEPT !.translations = tr,
                                   !.regional = [EmptyRegional EXCEPT !.defaultLocale = dl]],
              EmptyEnv, NoDocument) :
        tr \in Translations, dl \in {Undefined, FR_FR}}

\* the keys handed to t: every string over "a", "0" and "." up to MaxKeyLen
Keys == SeqsUpTo({"a", "0", "."}, MaxKeyLen)

\* the locales handed to t: omitted, "en-US", "fr-FR", and one with no dictionary
Locales == {Undefined, EN_US, FR_FR, S("de-DE")}

\* cookie stores a page can start with
Jars ==
    {<<>>,
     <<Cookie(<<"theme">>, <<"dark">>, RootPath)>>,
     <<Cookie(NEXT_LOCALE, <<"es-ES">>, RootPath)>>,
     <<Cookie(<<"theme">>, <<"dark">>, RootPath), Cookie(NEXT_LOCALE, <<"es-ES">>, RootPath),
       Cookie(<<"NEXT_LOCALE_SEEN">>, <<"1">>, RootPath)>>,
     <<Cookie(NEXT_LOCALE, <<"es-ES">>, PagePath)>>}

\* the locales handed to setLocaleCookie: every string over a locale code and
\* the characters cookie text gives a meaning to, up to MaxLocaleLen
CookieLocales == SeqsUpTo({"fr-FR", "=", ";", " "}, MaxLocaleLen)

SomeTranslations == Obj(EN_US.s :> Obj(A :> Str(<<"e", "n">>)))

CookieScenarios ==
    {Scenario(o, EmptyEnv, d) :
        o \in {[FullOptions EXCEPT !.translations = SomeTranslations,
                                  !.customConfig = Obj([extra |-> S("x")])]},
        d \in {NoDocument} \cup {Doc(j) : j \in Jars}}

(***************************************************************************)
(* The state machine: the factory is called once, then the helpers it      *)
(* returned are called in any number and order by the request contexts.    *)
(***************************************************************************)
NoCall == [op |-> "none"]

\* no call singled out: the helpers take their arguments from the sets of Next
AnyArgs == [kind |-> "any"]

InitOver(scenarios, calls) ==
    /\ \E sc \in scenarios :
          /\ options = sc.options
          /\ env = sc.env
          /\ document = sc.document
    /\ args \in calls
    /\ pc = "start"
    /\ CONFIG = Undefined
    /\ closure = Undefined
    /\ ret = NoCall
    /\ lastSet = Undefined

Create ==
    /\ pc = "start"
    /\ LET m == createBrandConfig(options, env)
       IN  IF m = Threw
           THEN /\ pc' = "failed"
                /\ ret' = [op |-> "createBrandConfig", val |-> Threw]
                /\ UNCHANGED <<CONFIG, closure>>
           ELSE /\ pc' = "ready"
                /\ CONFIG' = m.CONFIG
                /\ closure' = [translations |-> m.translations,
                               regionalConfig |-> m.regionalConfig]
                /\ ret' = [op |-> "createBrandConfig", val |-> Undefined]
    /\ UNCHANGED <<options, env, args, document, lastSet>>

T(ctx, key, locale) ==
    /\ pc = "ready"
    /\ ret' = [op |-> "t", ctx |-> ctx, key |-> key, locale |-> locale,
               val |-> t(closure.translations, closure.regionalConfig.defaultLocale,
                         key, locale)]
    /\ UNCHANGED <<pc, options, env, args, CONFIG, closure, document, lastSet>>

SetLocaleCookie(ctx, locale) ==
    /\ pc = "ready"
    /\ document' = setLocaleCookie(document, locale)
    /\ lastSet' = Str(locale)
    /\ ret' = [op |-> "setLocaleCookie", ctx |-> ctx, val |-> Undefined]
    /\ UNCHANGED <<pc, options, env, args, CONFIG, closure>>

\* a reader that leaves a marker cookie when it finds no locale cookie
GetLocaleCookie_Writes(ctx) ==
    /\ pc = "ready"
    /\ ret' = [op |-> "getLocaleCookie", ctx |-> ctx, val |-> getLocaleCookie(document)]
    /\ document' = IF getLocaleCookie(document) = Null /\ document.kind = "document"
                   THEN [document EXCEPT !.jar = Append(@, Cookie(<<"seen">>, <<"1">>, RootPath))]
                   ELSE document
    /\ UNCHANGED <<pc, options, env, args, CONFIG, closure, lastSet>>

GetLocaleCookie(ctx) ==
    /\ pc = "ready"
    /\ ret' = [op |-> "getLocaleCookie", ctx |-> ctx, val |-> getLocaleCookie(document)]
    /\ UNCHANGED <<pc, options, env, args, CONFIG, closure, document, lastSet>>

\* the request contexts that share one module
Contexts == {"request-1", "request-2"}

\* construction: every options family, the helpers probed with a few arguments
Init == InitOver(FieldScenarios \cup SequenceScenarios \cup CustomScenarios
                 \cup MalformedScenarios, {AnyArgs})

Next ==
    \/ Create
    \/ \E key \in {<<"a">>, <<"a", ".", "0">>}, locale \in Locales : T("request-1", key, locale)
    \/ \E locale \in {<<"fr-FR">>} : SetLocaleCookie("request-1", locale)
    \/ GetLocaleCookie("request-1")

Spec == Init /\ [][Next]_vars

\* translation: t applied to every translations mapping, key and locale; the
\* call is drawn with the options
InitT == InitOver(TranslationScenarios, [kind : {"call"}, key : Keys, locale : Locales])

NextT ==
    \/ Create
    \/ T("request-1", args.key, args.locale)
    \/ \E locale \in {<<"fr-FR">>} : SetLocaleCookie("request-1", locale)
    \/ GetLocaleCookie("request-1")

SpecT == InitT /\ [][NextT]_vars

\* cookies: every document and locale, calls from every context
InitCookie == InitOver(CookieScenarios, {AnyArgs})

NextCookie ==
    \/ Create
    \/ \E ctx \in Contexts : T(ctx, <<"a">>, Undefined)
    \/ \E ctx \in Contexts, locale \in CookieLocales : SetLocaleCookie(ctx, locale)
    \/ \E ctx \in Contexts : GetLocaleCookie(ctx)

SpecCookie == InitCookie /\ [][NextCookie]_vars

(***************************************************************************)
(* The claims.                                                             *)
(***************************************************************************)
\* the options as the factory sees them, and what the caller wrote for a field
Given == Default(options, EmptyOptions)

ExplicitOf(f) ==
    LET part == IF f \in BrandFields THEN Given.brand ELSE Given.regional
    IN  IF part.kind = "object" THEN part[f] ELSE Undefined

EnvOf(f) == env[EnvVar[f]]

NonEmpty(v) == v.kind = "string" /\ v.s # <<>>

\* customConfig names a section like the built-in one, which it then replaces
\* in the aggregate (the shadowing of spec section 3)
Shadowed(k) == Given.customConfig.kind = "object" /\ k \in DOMAIN Given.customConfig.props

Resolved(f) == IF f \in BrandFields THEN CONFIG.brand[f] ELSE CONFIG.regional[f]

SectionOf(f) == IF f \in BrandFields THEN "brand" ELSE "regional"

BuiltIn(f) ==
    CASE f = "defaultCurrency" -> S("USD")
      [] f = "defaultLocale" -> S("en-US")
      [] OTHER -> DEFAULT_BRAND[f]

C2_ExplicitThenEnvThenDefault ==
    (pc = "ready") =>
        \A f \in AllFields \ {"logoUrl"} :
            ~Shadowed(SectionOf(f)) =>
                Resolved(f) = IF NonEmpty(ExplicitOf(f)) THEN ExplicitOf(f)
                              ELSE IF NonEmpty(EnvOf(f)) THEN EnvOf(f)
                              ELSE BuiltIn(f)

\* an empty explicit name with the variable set: the variable's value is used,
\* while another field keeps its explicit value over its variable
C2_Witness ==
    /\ pc = "ready"
    /\ ExplicitOf("name") = EmptyString
    /\ CONFIG.brand.name = EnvVal("name")
    /\ EnvOf("tagline") = EnvVal("tagline")
    /\ CONFIG.brand.tagline = OptVal("tagline")

\* C3: an explicit logoUrl, null included, is kept whatever the environment
\* holds; only an omitted logoUrl takes the environment value if non-empty,
\* else null.
C3_ExplicitNullLogoKept ==
    (pc = "ready" /\ ~Shadowed("brand")) =>
        /\ ExplicitOf("logoUrl") = Null => CONFIG.brand.logoUrl = Null
        /\ ExplicitOf("logoUrl") # Undefined => CONFIG.brand.logoUrl = ExplicitOf("logoUrl")
        /\ ExplicitOf("logoUrl") = Undefined =>
              CONFIG.brand.logoUrl = IF NonEmpty(EnvOf("logoUrl")) THEN EnvOf("logoUrl")
                                     ELSE Null

\* logoUrl: null with the logo variable set
C3_Witness ==
    /\ pc = "ready"
    /\ options.kind = "object" /\ options.brand.kind = "object"
    /\ options.brand.logoUrl = Null
    /\ EnvOf("logoUrl") = EnvVal("logoUrl")
    /\ CONFIG.brand.logoUrl = Null

\* the position of the first occurrence of x in xs
FirstAt(xs, x) == CHOOSE i \in 1..Len(xs) : xs[i] = x /\ \A j \in 1..(i - 1) : xs[j] # x

\* C4: supportedLocales has no duplicate, holds exactly the codes of the
\* dashboard and marketing languages (supplied or defaulted), and lists them
\* dashboard codes first in their order, then the marketing-only codes in
\* theirs.
C4_SupportedLocalesOrderedUnion ==
    (pc = "ready" /\ ~Shadowed("i18n")) =>
        LET dashboard == Codes(Default(Given.languages, DEFAULT_LANGUAGES))
            marketing == Codes(Default(Given.marketingLanguages, DEFAULT_LANGUAGES))
            all == dashboard \o marketing
            got == CONFIG.i18n.supportedLocales.items
        IN  /\ \A i, j \in 1..Len(got) : got[i] = got[j] => i = j
            /\ Range(got) = Range(dashboard) \cup Range(marketing)
            /\ \A i, j \in 1..Len(got) : i < j => FirstAt(all, got[i]) < FirstAt(all, got[j])

\* a code repeated in the dashboard list and shared with the marketing list,
\* which also brings a code of its own
C4_Witness ==
    /\ pc = "ready"
    /\ options.kind = "object"
    /\ options.languages.kind = "array"
    /\ Codes(options.languages) = <<S("es-ES"), S("es-ES")>>
    /\ options.marketingLanguages.kind = "array"
    /\ Codes(options.marketingLanguages) = <<S("de-DE"), S("es-ES")>>
    /\ CONFIG.i18n.supportedLocales.items = <<S("es-ES"), S("de-DE")>>

CookieSafe(locale) ==
    /\ \A i \in 1..Len(locale) : locale[i] \notin {";", "="}
    /\ locale = Trim(locale)

\* the store holds no NEXT_LOCALE cookie of a narrower path than "/"
NoNarrowerLocaleCookie ==
    \A i \in 1..Len(document.jar) :
        document.jar[i].name = NEXT_LOCALE => document.jar[i].path = RootPath

C6_NoDocumentNoWriteNullRead ==
    [][(pc = "ready" /\ document.kind = "undefined") =>
          /\ document' = document
          /\ CONFIG' = CONFIG
          /\ closure' = closure
          /\ ret'.op \in {"setLocaleCookie", "getLocaleCookie"} => ret'.val # Threw
          /\ ret'.op = "getLocaleCookie" => ret'.val = Null]_vars

\* a read after a write, both without a document
C6_Witness ==
    /\ document.kind = "undefined"
    /\ lastSet = FR_FR
    /\ ret.op = "getLocaleCookie"
    /\ ret.val = Null

\* the cookies other than NEXT_LOCALE at "/"
Others(jar) == SelectSeq(jar, LAMBDA c : ~(c.name = NEXT_LOCALE /\ c.path = RootPath))

\* C7: a supplied currencies, languages or marketingLanguages sequence is the
\* aggregate's, entry for entry; an omitted one is the built-in sequence, of
\* nine currencies or three languages.
C7_SequencesPassedThrough ==
    (pc = "ready") =>
        \A k \in {"currencies", "languages", "marketingLanguages"} :
            ~Shadowed(k) =>
                /\ Given[k].kind = "array" => CONFIG[k] = Given[k]
                /\ Given[k].kind = "undefined" =>
                      /\ CONFIG[k] = IF k = "currencies" THEN DEFAULT_CURRENCIES
                                     ELSE DEFAULT_LANGUAGES
                      /\ Len(CONFIG[k].items) = IF k = "currencies" THEN 9 ELSE 3

\* one currency supplied and kept alone, marketing languages omitted
C7_Witness ==
    /\ pc = "ready"
    /\ options.kind = "object"
    /\ options.currencies.kind = "array" /\ Len(options.currencies.items) = 1
    /\ Len(CONFIG.currencies.items) = 1
    /\ options.marketingLanguages = Undefined
    /\ Len(CONFIG.marketingLanguages.items) = 3

\* C8 as stated: createBrandConfig raises for no options structure, absent,
\* null or ill-formed parts included.
C8_ConstructionNeverRaises ==
    (ret.op = "createBrandConfig") => ret.val # Threw

\* C9: once the module is built, no call of a helper changes CONFIG or the
\* translations; only setLocaleCookie changes the cookie store, and only its
\* NEXT_LOCALE cookie.
C9_HelpersChangeOnlyLocaleCookie ==
    [][(pc = "ready") =>
          /\ CONFIG' = CONFIG
          /\ closure' = closure
          /\ document' # document =>
                /\ ret'.op = "setLocaleCookie"
                /\ document'.kind = "document"
                /\ Others(document'.jar) = Others(document.jar)]_vars

\* a call of t from the second context after a cookie was written over other cookies
C9_Witness ==
    /\ pc = "ready"
    /\ ret.op = "t" /\ ret.ctx = "request-2"
    /\ lastSet = FR_FR
    /\ document.kind = "document"
    /\ Len(document.jar) = 3
    /\ document.jar[2] = Cookie(NEXT_LOCALE, <<"fr-FR">>, RootPath)
    /\ "extra" \in DOMAIN CONFIG

\* the traversal C10 describes: it stops on an absent or null value and on a
\* value that is no dictionary while segments remain
RECURSIVE DescribedTraverse(_, _)
DescribedTraverse(value, keys) ==
    IF keys = <<>> THEN value
    ELSE IF Nullish(value) \/ value.kind # "object" THEN Undefined
    ELSE DescribedTraverse(Index(value, Head(keys)), Tail(keys))

\* C10 as stated: a traversal that meets an absent or null value, or a leaf
\* with segments left, finds nothing, and t answers from "en-US" or with the key.
C10_LeafWithSegmentsLeftIsNotFound ==
    (ret.op = "t") =>
        LET locale == Default(ret.locale, closure.regionalConfig.defaultLocale)
            keys == Split(ret.key, <<".">>)
            dict == Or(Or(Index(closure.translations, locale.s),
                          Index(closure.translations, EN_US.s)), EmptyObj)
            en == DescribedTraverse(Or(Index(closure.translations, EN_US.s), EmptyObj), keys)
        IN  Nullish(DescribedTraverse(dict, keys)) =>
                ret.val = IF locale # EN_US /\ ~Nullish(en) THEN en ELSE Str(ret.key)

====
